---- MODULE Spec2Model ----
(***************************************************************************)
(* Model of generate_report.py: a converter of ride-hailing PDF trip logs  *)
(* into CSV/Excel and into a Word reimbursement table.                     *)
(*                                                                         *)
(* Representation.                                                         *)
(*  - A Python str is a sequence of tokens.  A token is one character, or  *)
(*    an indivisible marker standing for a fixed run of characters:        *)
(*      "T_didi"        the title marker of didi      (platform_pattern)   *)
(*      "T_gaode"       the title marker of gaode                          *)
(*      "T_shouqi"      the title marker of shouqi                         *)
(*      "T_meituan"     the title marker of meituan                        *)
(*      "T_huaxiaozhu"  the title marker of huaxiaozhu                     *)
(*      "gong"          the character opening didi's and shouqi's          *)
(*                      row-count phrase                                   *)
(*      "gongji"        the two characters opening gaode's phrase          *)
(*      "bi_xc" "dan_xc" "ge_xc"  the three phrase endings                 *)
(*      "NL" a line break, "SP" a blank, "CR" a carriage return            *)
(*  - A DataFrame cell is a record [t, s, n]: t = "str" with text s,       *)
(*    t = "int" with number n, or t = "nan" (a missing value, whose        *)
(*    str() is the three characters n a n).                                *)
(*  - A DataFrame is [columns |-> sequence of cells, rows |-> sequence of  *)
(*    rows], each row a sequence of cells as long as columns.              *)
(*  - A coordinate of a cropping region is an exact decimal <<w, m>>       *)
(*    standing for w + m / 10^6 (0 <= m < 10^6); the constants of the      *)
(*    source have at most six decimals.                                    *)
(***************************************************************************)
EXTENDS Integers, Sequences, FiniteSets, TLC

VARIABLES
    pc,            \* position of the running call
    pdf,           \* the input file: [wellformed, text, tables]
    output_type,   \* args.output_type
    file_content,  \* _read_meta: the extracted text
    platform,      \* _read_meta result: tag
    line_count,    \* _read_meta result: row count
    parser,        \* _read_meta result: parser function
    area,          \* the region handed to tabula.read_pdf
    df,            \* the DataFrame a parser returned
    log,           \* records emitted through logging
    files,         \* the file system: name -> content or Absent
    exc,           \* the exception that ended the run, or "none"
    configs,       \* __main__: the purpose configs
    data,          \* __main__ / generate_report: the report rows
    total_amount,  \* __main__ / generate_report: the total
    doc            \* generate_report: the table of the saved document

vars == <<pc, pdf, output_type, file_content, platform, line_count, parser,
          area, df, log, files, exc, configs, data, total_amount, doc>>

-----------------------------------------------------------------------------
(* Bounds of the model *)

MaxTextLen == 4

MaxLineCount == 45

MaxTables == 2

MaxRows == 4

MaxCsvRows == 2

MaxReportRows == 2

MaxTrips == 2

-----------------------------------------------------------------------------
(* Python str and number helpers *)

Range(s) == {s[i] : i \in 1..Len(s)}

SeqsUpTo(S, n) == UNION {[1..k -> S] : k \in 0..n}

Whitespace == {"SP", "NL", "CR"}

RECURSIVE LStrip(_)
LStrip(s) == IF s # <<>> /\ Head(s) \in Whitespace THEN LStrip(Tail(s)) ELSE s

RECURSIVE RStrip(_)
RStrip(s) ==
    IF s # <<>> /\ s[Len(s)] \in Whitespace
    THEN RStrip(SubSeq(s, 1, Len(s) - 1)) ELSE s

\* str.strip()
Strip(s) == RStrip(LStrip(s))

DigitChars == <<"0", "1", "2", "3", "4", "5", "6", "7", "8", "9">>

IsDigit(c) == c \in Range(DigitChars)

DigitVal(c) == (CHOOSE i \in 1..10 : DigitChars[i] = c) - 1

\* int(str) of a run of decimal digits
RECURSIVE ToInt(_)
ToInt(ds) ==
    IF ds = <<>> THEN 0
    ELSE 10 * ToInt(SubSeq(ds, 1, Len(ds) - 1)) + DigitVal(ds[Len(ds)])

\* str(int) of a non-negative int
RECURSIVE IntToStr(_)
IntToStr(n) ==
    IF n < 10 THEN <<DigitChars[n + 1]>>
    ELSE IntToStr(n \div 10) \o <<DigitChars[(n % 10) + 1]>>

\* cells
StrCell(s) == [t |-> "str", s |-> s, n |-> 0]

IntCell(n) == [t |-> "int", s |-> <<>>, n |-> n]

NaN == [t |-> "nan", s |-> <<>>, n |-> 0]

\* str(x) of a cell value
Str(c) ==
    CASE c.t = "str" -> c.s
      [] c.t = "int" -> IntToStr(c.n)
      [] c.t = "nan" -> <<"n", "a", "n">>

NoTable == [columns |-> <<>>, rows |-> <<>>]

Absent == [kind |-> "absent", bytes |-> <<>>, sheet |-> NoTable]

NoArea == <<>>

-----------------------------------------------------------------------------
(* platform_pattern and _read_meta *)

\* variant: a dict that declares meituan first and didi fourth
platform_order_swapped == <<"meituan", "gaode", "shouqi", "didi", "huaxiaozhu">>

\* dict order of platform_pattern
platform_order == <<"didi", "gaode", "shouqi", "meituan", "huaxiaozhu">>

\* line_count_like is: prefix (\d+) suffix ; prefix "" when the pattern has none
platform_pattern ==
    [didi       |-> [title_like |-> "T_didi", prefix |-> "gong",
                     suffix |-> "bi_xc", parser |-> "parse_didi"],
     gaode      |-> [title_like |-> "T_gaode", prefix |-> "gongji",
                     suffix |-> "dan_xc", parser |-> "parse_gaode"],
     shouqi     |-> [title_like |-> "T_shouqi", prefix |-> "gong",
                     suffix |-> "ge_xc", parser |-> "parse_shouqi"],
     meituan    |-> [title_like |-> "T_meituan", prefix |-> "",
                     suffix |-> "bi_xc", parser |-> "parse_meituan"],
     huaxiaozhu |-> [title_like |-> "T_huaxiaozhu", prefix |-> "",
                     suffix |-> "bi_xc", parser |-> "parse_huaxiaozhu"]]

\* the lines of str.splitlines()
RECURSIVE SplitLines(_)
SplitLines(s) ==
    IF s = <<>> THEN <<>>
    ELSE IF \E i \in 1..Len(s) : s[i] = "NL"
         THEN LET i == CHOOSE k \in 1..Len(s) :
                          s[k] = "NL" /\ \A j \in 1..(k - 1) : s[j] # "NL"
              IN <<SubSeq(s, 1, i - 1)>> \o SplitLines(SubSeq(s, i + 1, Len(s)))
         ELSE <<s>>

RECURSIVE JoinNonBlank(_)
JoinNonBlank(ls) ==
    IF ls = <<>> THEN <<>>
    ELSE (IF Strip(Head(ls)) # <<>> THEN Head(ls) ELSE <<>>) \o JoinNonBlank(Tail(ls))

\* _extract_text on a well-formed file: the non-blank lines, joined
extract_text(raw) == JoinNonBlank(SplitLines(raw))

\* the greedy run of digits that starts at position j
RECURSIVE DigitRun(_, _)
DigitRun(s, j) ==
    IF j <= Len(s) /\ IsDigit(s[j]) THEN <<s[j]>> \o DigitRun(s, j + 1) ELSE <<>>

\* the group captured when the pattern matches at position i, <<>> when it
\* does not match there
MatchAt(pat, s, i) ==
    LET j == IF pat.prefix = "" THEN i ELSE i + 1
        run == DigitRun(s, j)
        k == j + Len(run)
    IN IF /\ (pat.prefix = "" \/ (i <= Len(s) /\ s[i] = pat.prefix))
          /\ run # <<>>
          /\ k <= Len(s) /\ s[k] = pat.suffix
       THEN run ELSE <<>>

\* re.search(line_count_like, s): scans the start positions left to right
RECURSIVE SearchFrom(_, _, _)
SearchFrom(pat, s, i) ==
    IF i > Len(s) THEN <<>>
    ELSE IF MatchAt(pat, s, i) # <<>> THEN MatchAt(pat, s, i)
    ELSE SearchFrom(pat, s, i + 1)

re_search_count(pat, s) == SearchFrom(pat, s, 1)

\* re.search(title_like, s)
re_search_title(title, s) == \E i \in 1..Len(s) : s[i] = title

\* the loop of _read_meta from entry i of the dict on
RECURSIVE read_meta_from(_, _)
read_meta_from(content, i) ==
    IF i > Len(platform_order) THEN <<"unknown", 0, "parse_unknown">>
    ELSE LET p == platform_order[i]
             pattern == platform_pattern[p]
             match == re_search_count(pattern, content)
         IN IF re_search_title(pattern.title_like, content)
            THEN <<p, IF match # <<>> THEN ToInt(match) ELSE 0, pattern.parser>>
            ELSE read_meta_from(content, i + 1)

LogRec(level, msg) == [level |-> level, msg |-> msg]

\* variant: the syntax error is swallowed and the run goes on
extract_text_swallows(p) == FALSE

\* _extract_text: pdfminer's PDFSyntaxError on a malformed file is logged and
\* raised again as Exception
extract_text_raises(p) == ~ p.wellformed

\* _read_meta (with _extract_text), as called at the start of main and of
\* the script entry point
ReadMeta ==
    /\ pc \in {"main_read_meta", "entry_read_meta"}
    /\ IF ~ extract_text_raises(pdf)
       THEN LET content == extract_text(pdf.text)
                meta == read_meta_from(content, 1)
            IN /\ file_content' = content
               /\ platform' = meta[1]
               /\ line_count' = meta[2]
               /\ parser' = meta[3]
               /\ pc' = IF pc = "main_read_meta" THEN "main_parse" ELSE "entry_parse"
               /\ UNCHANGED <<log, exc>>
       ELSE /\ log' = Append(log, LogRec("error", "not a PDF"))
            /\ exc' = "Exception"
            /\ pc' = "raised"
            /\ UNCHANGED <<file_content, platform, line_count, parser>>
    /\ UNCHANGED <<pdf, output_type, area, df, files, configs, data,
                   total_amount, doc>>

-----------------------------------------------------------------------------
(* Specification of _read_meta over all short texts *)

TextTokens ==
    {"T_didi", "T_gaode", "T_shouqi", "T_meituan", "T_huaxiaozhu",
     "gong", "gongji", "bi_xc", "dan_xc", "ge_xc", "1", "2", "NL", "SP"}

Idle(p, f, o) ==
    /\ pdf = p
    /\ output_type = o
    /\ file_content = <<>>
    /\ platform = "none"
    /\ area = NoArea
    /\ log = <<>>
    /\ files = f
    /\ exc = "none"
    /\ doc = <<>>

NoReport ==
    /\ configs = {}
    /\ data = <<>>
    /\ total_amount = 0

NoFiles == [f \in {"output.csv", "output.xlsx", "report.docx"} |-> Absent]

InitMeta ==
    /\ pc = "main_read_meta"
    /\ \E txt \in SeqsUpTo(TextTokens, MaxTextLen) :
          Idle([wellformed |-> TRUE, text |-> txt, tables |-> <<>>], NoFiles, "csv")
    /\ line_count = 0
    /\ parser = "none"
    /\ df = NoTable
    /\ NoReport

NextMeta == ReadMeta

SpecMeta == InitMeta /\ [][NextMeta]_vars

\* the positions at which the row-count pattern of platform p matches
MatchStarts(p, s) ==
    LET pat == platform_pattern[p]
    IN {i \in 1..Len(s) :
          \E j \in i..Len(s), k \in i..Len(s) :
             /\ j <= k
             /\ j = (IF pat.prefix = "" THEN i ELSE i + 1)
             /\ (pat.prefix # "" => s[i] = pat.prefix)
             /\ \A d \in j..k : IsDigit(s[d])
             /\ k + 1 <= Len(s) /\ s[k + 1] = pat.suffix}

\* the digits captured by the leftmost match: the digits between the prefix
\* and the suffix
FirstCapture(p, s) ==
    LET pat == platform_pattern[p]
        i == CHOOSE m \in MatchStarts(p, s) : \A o \in MatchStarts(p, s) : m <= o
        j == IF pat.prefix = "" THEN i ELSE i + 1
        k == CHOOSE e \in j..Len(s) :
                 /\ e + 1 <= Len(s)
                 /\ s[e + 1] = pat.suffix
                 /\ \A d \in j..e : IsDigit(s[d])
    IN SubSeq(s, j, k)

Occurs(title, s) == title \in Range(s)

\* C1: after _read_meta, the tag and parser are those of the first entry of
\* platform_pattern (didi, gaode, shouqi, meituan, huaxiaozhu) whose title
\* marker occurs in the extracted text, the row count is the integer captured
\* by the first match of that platform's own row-count pattern (0 when it
\* does not match), and without any title marker the result is
\* ('unknown', 0, _parse_unknown).
C1_ReadMetaDetects ==
    pc = "main_parse" =>
        LET order == <<"didi", "gaode", "shouqi", "meituan", "huaxiaozhu">>
            hits == {i \in 1..5 : Occurs(platform_pattern[order[i]].title_like, file_content)}
        IN IF hits = {}
           THEN /\ platform = "unknown" /\ line_count = 0 /\ parser = "parse_unknown"
           ELSE LET p == order[CHOOSE i \in hits : \A h \in hits : i <= h]
                IN /\ platform = p
                   /\ parser = platform_pattern[p].parser
                   /\ line_count = IF MatchStarts(p, file_content) = {} THEN 0
                                   ELSE ToInt(FirstCapture(p, file_content))

\* meituan detected with a two-digit row count
C1_Witness ==
    /\ pc = "main_parse"
    /\ platform = "meituan"
    /\ line_count = 12

-----------------------------------------------------------------------------
(* Cropping regions: exact decimals <<whole, millionths>> *)

Dec(w, m) == <<w, m>>

DecAdd(a, b) ==
    <<a[1] + b[1] + ((a[2] + b[2]) \div 1000000), (a[2] + b[2]) % 1000000>>

\* decimal times a non-negative int
DecMul(a, n) == <<a[1] * n + ((a[2] * n) \div 1000000), (a[2] * n) % 1000000>>

DecLess(a, b) == a[1] < b[1] \/ (a[1] = b[1] /\ a[2] < b[2])

DecLeq(a, b) == a = b \/ DecLess(a, b)

\* area = [top, left, bottom, right]
didi_area(lc) ==
    LET default == <<Dec(266, 0), Dec(42, 765625), Dec(785, 28125), Dec(564, 134375)>>
    IN IF lc # 0
       THEN [default EXCEPT ![3] = DecAdd(Dec(3120, 3125), DecMul(Dec(31, 237500), lc))]
       ELSE default

\* variant: the bottom edge without the row term
huaxiaozhu_area_header_only(lc) ==
    LET default == <<Dec(222, 0), Dec(42, 0), Dec(780, 0), Dec(564, 0)>>
    IN IF lc # 0
       THEN [default EXCEPT ![3] = Dec(262, 0)]
       ELSE default

huaxiaozhu_area(lc) ==
    LET default == <<Dec(222, 0), Dec(42, 0), Dec(780, 0), Dec(564, 0)>>
    IN IF lc # 0
       THEN [default EXCEPT ![3] = DecAdd(Dec(262, 0), DecMul(Dec(31, 0), lc))]
       ELSE default

gaode_area(lc) ==
    LET default == <<Dec(173, 0), Dec(37, 576700), Dec(791, 343700), Dec(559, 186400)>>
    IN IF lc # 0
       THEN [default EXCEPT ![3] = DecAdd(Dec(216, 903300), DecMul(Dec(30, 0), lc))]
       ELSE default

shouqi_area(lc) ==
    LET default == <<Dec(153, 584375), Dec(29, 378125), Dec(817, 753125), Dec(566, 365625)>>
    IN IF lc # 0
       THEN [default EXCEPT ![3] = DecAdd(Dec(176, 640620), DecMul(Dec(15, 953790), lc))]
       ELSE default

meituan_area(lc) ==
    LET default == <<Dec(285, 727500), Dec(41, 692500), Dec(314, 797500), Dec(571, 72500)>>
    IN IF lc # 0
       THEN [default EXCEPT ![3] = DecAdd(Dec(314, 797500), DecMul(Dec(28, 305000), lc))]
       ELSE default

-----------------------------------------------------------------------------
(* The parsers *)

CallSites == {"call_parser", "main_parse", "entry_parse"}

\* where a parser returns to
ReturnTo(site) ==
    CASE site = "call_parser" -> "returned"
      [] site = "main_parse" -> "main_output"
      [] site = "entry_parse" -> "entry_build"

\* the check every parser makes on the list tabula.read_pdf returned
log_tables(lg, dfs) ==
    IF 0 = Len(dfs) THEN Append(lg, LogRec("error", "no table found"))
    ELSE IF 1 < Len(dfs) THEN Append(lg, LogRec("warning", "more than 1 table recognized"))
    ELSE lg

\* name.replace('\r', ' ')
ReplaceCR(s) == [i \in 1..Len(s) |-> IF s[i] = "CR" THEN "SP" ELSE s[i]]

clean_columns(t) ==
    [t EXCEPT !.columns = [i \in 1..Len(t.columns) |-> StrCell(ReplaceCR(t.columns[i].s))]]

\* seq[start::2] with a 0-based start
RECURSIVE SliceStep2(_, _)
SliceStep2(s, start) ==
    IF start + 1 > Len(s) THEN <<>>
    ELSE <<s[start + 1]>> \o SliceStep2(s, start + 2)

\* zip(a, b)
Min(a, b) == IF a < b THEN a ELSE b

Zip(a, b) == [i \in 1..Min(Len(a), Len(b)) |-> <<a[i], b[i]>>]

\* str(a).strip() + ('' if str(b).strip() == 'nan' else str(b).strip())
shouqi_join(a, b) ==
    StrCell(Strip(Str(a)) \o
            (IF Strip(Str(b)) = <<"n", "a", "n">> THEN <<>> ELSE Strip(Str(b))))

\* variant: the pairing starts at row 0, as in _parse_meituan
shouqi_pairs_from_zero(rows) == Zip(SliceStep2(rows, 0), SliceStep2(rows, 1))

\* zip(row_index[1::2], row_index[2::2])
shouqi_pairs(rows) == Zip(SliceStep2(rows, 1), SliceStep2(rows, 2))

\* the post-processing of _parse_shouqi on a table with at least one row
shouqi_repair(t) ==
    LET cols == [i \in 1..Len(t.columns) |-> shouqi_join(t.columns[i], t.rows[1][i])]
        pairs == shouqi_pairs(t.rows)
    IN [columns |-> cols,
        rows |-> [k \in 1..Len(pairs) |->
                    [i \in 1..Min(Len(pairs[k][1]), Len(pairs[k][2])) |->
                        shouqi_join(pairs[k][1][i], pairs[k][2][i])]]]

\* ('' if str(x).strip() == 'nan' else (str(x).strip() + ' ')) + str(y).strip()
meituan_join(x, y) ==
    StrCell((IF Strip(Str(x)) = <<"n", "a", "n">> THEN <<>> ELSE Strip(Str(x)) \o <<"SP">>)
            \o Strip(Str(y)))

\* zip(row_index[::2], row_index[1::2])
meituan_pairs(rows) == Zip(SliceStep2(rows, 0), SliceStep2(rows, 1))

\* the post-processing of _parse_meituan
meituan_repair(t) ==
    LET pairs == meituan_pairs(t.rows)
    IN [columns |-> t.columns,
        rows |-> [k \in 1..Len(pairs) |->
                    [i \in 1..Min(Len(pairs[k][1]), Len(pairs[k][2])) |->
                        meituan_join(pairs[k][1][i], pairs[k][2][i])]]]

\* a parser body: read_pdf with region a, the check of the list, dfs[0] and
\* the post-processing of dfs[0], which gives result unless it raises (fails)
ParserBody(a, result, fails) ==
    /\ pc \in CallSites
    /\ area' = a
    /\ log' = log_tables(log, pdf.tables)
    /\ IF Len(pdf.tables) = 0 \/ fails
       THEN /\ exc' = "IndexError"
            /\ pc' = "raised"
            /\ df' = df
       ELSE /\ df' = result
            /\ pc' = ReturnTo(pc)
            /\ exc' = exc
    /\ UNCHANGED <<pdf, output_type, file_content, platform, line_count, parser,
                   files, configs, data, total_amount, doc>>

\* df.iloc[0] of a table without rows
NoRow(t) == Len(t.rows) = 0

ParseDidi ==
    /\ parser = "parse_didi"
    /\ ParserBody(didi_area(line_count), clean_columns(pdf.tables[1]), FALSE)

ParseHuaxiaozhu ==
    /\ parser = "parse_huaxiaozhu"
    /\ ParserBody(huaxiaozhu_area(line_count), clean_columns(pdf.tables[1]), FALSE)

ParseGaode ==
    /\ parser = "parse_gaode"
    /\ ParserBody(gaode_area(line_count), pdf.tables[1], FALSE)

ParseShouqi ==
    /\ parser = "parse_shouqi"
    /\ ParserBody(shouqi_area(line_count), shouqi_repair(pdf.tables[1]),
                  NoRow(pdf.tables[1]))

ParseMeituan ==
    /\ parser = "parse_meituan"
    /\ ParserBody(meituan_area(line_count), meituan_repair(pdf.tables[1]), FALSE)

\* _parse_unknown(file_path), called with its one parameter
ParseUnknown ==
    /\ pc = "call_parser"
    /\ parser = "parse_unknown"
    /\ ParserBody(NoArea, pdf.tables[1], FALSE)

\* parser(file_path, line_count) when _read_meta returned _parse_unknown, which
\* takes one parameter only
CallUnknownWithLineCount ==
    /\ pc \in {"main_parse", "entry_parse"}
    /\ parser = "parse_unknown"
    /\ exc' = "TypeError"
    /\ pc' = "raised"
    /\ UNCHANGED <<pdf, output_type, file_content, platform, line_count, parser,
                   area, df, log, files, configs, data, total_amount, doc>>

-----------------------------------------------------------------------------
(* Specification of the cropping regions: every parser, every row count *)

PlatformParsers ==
    {"parse_didi", "parse_huaxiaozhu", "parse_gaode", "parse_shouqi", "parse_meituan"}

Txt(s) == StrCell(s)

SampleTable ==
    [columns |-> <<Txt(<<"a", "CR", "b">>), Txt(<<"c">>)>>,
     rows |-> << <<Txt(<<"x">>), NaN>>, <<Txt(<<"y">>), Txt(<<"z">>)>>,
                 <<NaN, Txt(<<"w">>)>> >>]

InitArea ==
    /\ pc = "call_parser"
    /\ Idle([wellformed |-> TRUE, text |-> <<>>, tables |-> <<SampleTable>>], NoFiles, "csv")

    /\ parser \in PlatformParsers
    /\ line_count \in 0..MaxLineCount
    /\ df = NoTable
    /\ NoReport

NextArea == ParseDidi \/ ParseHuaxiaozhu \/ ParseGaode \/ ParseShouqi \/ ParseMeituan

SpecArea == InitArea /\ [][NextArea]_vars

\* the regions as the claim describes them: fixed top, left and right, a
\* bottom of base + per_row * line_count, the default bottom, and the largest
\* row count whose bottom stays within the default bottom (0: none does)
C2_Regions ==
    [parse_didi |->
        [top |-> Dec(266, 0), left |-> Dec(42, 765625), right |-> Dec(564, 134375),
         base |-> Dec(3120, 3125), per_row |-> Dec(31, 237500),
         default_bottom |-> Dec(785, 28125), fits_upto |-> 0],
     parse_huaxiaozhu |->
        [top |-> Dec(222, 0), left |-> Dec(42, 0), right |-> Dec(564, 0),
         base |-> Dec(262, 0), per_row |-> Dec(31, 0),
         default_bottom |-> Dec(780, 0), fits_upto |-> 16],
     parse_gaode |->
        [top |-> Dec(173, 0), left |-> Dec(37, 576700), right |-> Dec(559, 186400),
         base |-> Dec(216, 903300), per_row |-> Dec(30, 0),
         default_bottom |-> Dec(791, 343700), fits_upto |-> 19],
     parse_shouqi |->
        [top |-> Dec(153, 584375), left |-> Dec(29, 378125), right |-> Dec(566, 365625),
         base |-> Dec(176, 640620), per_row |-> Dec(15, 953790),
         default_bottom |-> Dec(817, 753125), fits_upto |-> 40],
     parse_meituan |->
        [top |-> Dec(285, 727500), left |-> Dec(41, 692500), right |-> Dec(571, 72500),
         base |-> Dec(314, 797500), per_row |-> Dec(28, 305000),
         default_bottom |-> Dec(314, 797500), fits_upto |-> 0]]

\* the part of C2 that does not compare with the default bottom edge
C2_Linear(c) ==
    IF line_count = 0
    THEN area = <<c.top, c.left, c.default_bottom, c.right>>
    ELSE /\ area[1] = c.top
         /\ area[2] = c.left
         /\ area[4] = c.right
         /\ area[3] = DecAdd(c.base, DecMul(c.per_row, line_count))
         /\ DecLess(area[1], area[3])
         /\ DecLess(DecAdd(c.base, DecMul(c.per_row, line_count - 1)), area[3])

\* C2 as claimed: in each of the five parsers the region for line_count >= 1
\* has the fixed top, left and right edges and a bottom edge of a constant
\* plus a row height times line_count, below the top edge and strictly
\* growing, which for a single-page row count (one row is the least of them)
\* does not exceed the default bottom edge; line_count = 0 gives the default
\* region.
C2_Original ==
    pc = "returned" =>
        /\ C2_Linear(C2_Regions[parser])
        /\ line_count = 1 => DecLeq(area[3], C2_Regions[parser].default_bottom)

\* C2 as amended: as claimed, except that the bottom edge stays within the
\* default bottom edge only for huaxiaozhu up to 16 rows, gaode up to 19 rows
\* and shouqi up to 40 rows; for didi and for meituan it lies beyond the
\* default bottom edge for every line_count >= 1.
C2_Amended ==
    pc = "returned" =>
        /\ C2_Linear(C2_Regions[parser])
        /\ line_count >= 1 =>
              (DecLeq(area[3], C2_Regions[parser].default_bottom)
                  <=> line_count <= C2_Regions[parser].fits_upto)

\* didi with one row: the bottom edge 3151.240625 is beyond the default 785.028125
C2_Witness ==
    /\ pc = "returned"
    /\ parser = "parse_didi"
    /\ line_count = 1
    /\ area[3] = Dec(3151, 240625)
    /\ DecLess(Dec(785, 28125), area[3])

-----------------------------------------------------------------------------
(* Specification of the parsers over the lists the extraction engine returns *)

OtherTable ==
    [columns |-> <<Txt(<<"d">>), Txt(<<"e", "CR">>)>>,
     rows |-> << <<Txt(<<"SP", "u">>), Txt(<<"v">>)>>, <<NaN, Txt(<<"t">>)>> >>]

OneRowTable ==
    [columns |-> <<Txt(<<"f">>), Txt(<<"g">>)>>,
     rows |-> << <<Txt(<<"r">>), NaN>> >>]

\* the tables of a trip log have at least one row
SampleTables == {SampleTable, OtherTable, OneRowTable}

AllParsers == PlatformParsers \cup {"parse_unknown"}

InitParse ==
    /\ pc = "call_parser"
    /\ \E dfs \in SeqsUpTo(SampleTables, MaxTables) :
          Idle([wellformed |-> TRUE, text |-> <<>>, tables |-> dfs], NoFiles, "csv")
    /\ parser \in AllParsers
    /\ line_count \in {0, 3}
    /\ df = NoTable
    /\ NoReport

NextParse ==
    \/ ParseDidi
    \/ ParseHuaxiaozhu
    \/ ParseGaode
    \/ ParseShouqi
    \/ ParseMeituan
    \/ ParseUnknown

SpecParse == InitParse /\ [][NextParse]_vars

\* C3: in every parser, zero tables log an error, more than one table logs a
\* warning, and in both cases the parser uses the first table and returns a
\* result instead of failing with an exception; exactly one table logs
\* nothing.
C3_TablesLoggedFirstUsed ==
    pc \in {"returned", "raised"} =>
        /\ Len(pdf.tables) = 0 => log = <<LogRec("error", "no table found")>>
        /\ Len(pdf.tables) > 1 =>
              log = <<LogRec("warning", "more than 1 table recognized")>>
        /\ Len(pdf.tables) = 1 => log = <<>>
        /\ Len(pdf.tables) # 1 => (pc = "returned" /\ exc = "none")

\* zero tables: the error is logged and dfs[0] raises IndexError
C3_ZeroTablesRaise ==
    /\ pc = "raised"
    /\ Len(pdf.tables) = 0
    /\ exc = "IndexError"

-----------------------------------------------------------------------------
(* Specification of the row repairs over all small tables *)

RepairColumns == <<Txt(<<"SP", "h">>), Txt(<<"k", "CR">>)>>

\* the values of a cell of the first / the second column
RepairCells1 == {NaN, Txt(<<"SP", "a">>), Txt(<<"n", "a", "n", "SP">>)}

RepairCells2 == {NaN, IntCell(7), Txt(<<"b", "SP">>)}

RepairRows == {<<c1, c2>> : c1 \in RepairCells1, c2 \in RepairCells2}

InitRepair ==
    /\ pc = "call_parser"
    /\ \E rows \in SeqsUpTo(RepairRows, MaxRows) :
          Idle([wellformed |-> TRUE, text |-> <<>>,
                tables |-> <<[columns |-> RepairColumns, rows |-> rows]>>],
               NoFiles, "csv")
    /\ parser \in {"parse_shouqi", "parse_meituan"}
    /\ line_count = 0
    /\ df = NoTable
    /\ NoReport

NextRepair == ParseShouqi \/ ParseMeituan

SpecRepair == InitRepair /\ [][NextRepair]_vars

Nan3 == <<"n", "a", "n">>

\* s contains sub as a run of consecutive characters
Contains(s, sub) ==
    \E i \in 0..(Len(s) - Len(sub)) : SubSeq(s, i + 1, i + Len(sub)) = sub

\* the stripped text of a cell, none when that text is 'nan'
C8_Opt(c) == IF Strip(Str(c)) = Nan3 THEN <<>> ELSE Strip(Str(c))

\* row r (0-based) of the extracted table
C8_In(r) == pdf.tables[1].rows[r + 1]

\* C8: for an extracted table of n >= 1 rows _parse_shouqi merges row 0 into
\* the column names (stripped name, then the stripped row-0 cell unless it is
\* 'nan') and returns floor((n-1)/2) rows, result row i being the cell-wise
\* concatenation of the stripped cells of input rows 2i+1 and 2i+2 (the second
\* omitted when 'nan'); every input row from index 1 on is used in exactly one
\* result row, except a trailing unpaired row (n even), which is dropped.
C8_ShouqiRepair ==
    (pc = "returned" /\ parser = "parse_shouqi") =>
        LET t == pdf.tables[1]
            n == Len(t.rows)
            m == Len(df.rows)
            used(r) == {i \in 0..(m - 1) : r = 2 * i + 1 \/ r = 2 * i + 2}
        IN /\ n >= 1
           /\ m = (n - 1) \div 2
           /\ Len(df.columns) = Len(t.columns)
           /\ \A c \in 1..Len(t.columns) :
                 df.columns[c] = StrCell(Strip(Str(t.columns[c])) \o C8_Opt(C8_In(0)[c]))
           /\ \A i \in 0..(m - 1) :
                 /\ Len(df.rows[i + 1]) = Len(t.columns)
                 /\ \A c \in 1..Len(t.columns) :
                       df.rows[i + 1][c] =
                          StrCell(Strip(Str(C8_In(2 * i + 1)[c])) \o C8_Opt(C8_In(2 * i + 2)[c]))
           /\ \A r \in 1..(n - 1) :
                 IF n % 2 = 0 /\ r = n - 1
                 THEN used(r) = {}
                 ELSE Cardinality(used(r)) = 1

\* four rows: rows 1 and 2 make the one result row, the trailing row 3 is dropped
C8_Witness ==
    /\ pc = "returned"
    /\ parser = "parse_shouqi"
    /\ Len(pdf.tables[1].rows) = 4
    /\ Len(df.rows) = 1
    /\ pdf.tables[1].rows[3][1] = NaN
    /\ df.rows[1][1] = Txt(<<"a">>)

\* the text a cell holds: a missing value holds none
C9_OwnText(c) == IF c.t = "nan" THEN <<>> ELSE Str(c)

\* C9: for an extracted table of n rows _parse_meituan keeps the column names
\* and returns floor(n/2) rows, result row i being built cell-wise from input
\* rows 2i and 2i+1 as the stripped upper cell, one space and the stripped
\* lower cell, the upper cell and the space omitted when the upper cell is
\* 'nan'; no result cell contains the text 'nan' unless a source cell's own
\* text does, and a trailing unpaired row (n odd) is dropped.
C9_MeituanRepair ==
    (pc = "returned" /\ parser = "parse_meituan") =>
        LET t == pdf.tables[1]
            n == Len(t.rows)
            m == Len(df.rows)
        IN /\ df.columns = t.columns
           /\ m = n \div 2
           /\ \A i \in 0..(m - 1) : \A c \in 1..Len(t.columns) :
                 LET upper == C8_In(2 * i)[c]
                     lower == C8_In(2 * i + 1)[c]
                 IN /\ df.rows[i + 1][c] =
                         StrCell((IF Strip(Str(upper)) = Nan3 THEN <<>>
                                  ELSE Strip(Str(upper)) \o <<"SP">>)
                                 \o Strip(Str(lower)))
                    /\ Contains(df.rows[i + 1][c].s, Nan3) =>
                          \/ Contains(C9_OwnText(upper), Nan3)
                          \/ Contains(C9_OwnText(lower), Nan3)

\* the upper cell 'a', the lower cell missing: the result cell reads 'a nan'
C9_NanLeaks ==
    /\ pc = "returned"
    /\ parser = "parse_meituan"
    /\ Len(df.rows) >= 1
    /\ pdf.tables[1].rows[2][1] = NaN
    /\ df.rows[1][1] = Txt(<<"a", "SP", "n", "a", "n">>)

-----------------------------------------------------------------------------
(* The exporters *)

BytesFile(bs) == [kind |-> "bytes", bytes |-> bs, sheet |-> NoTable]

XlsxFile(t) == [kind |-> "xlsx", bytes |-> <<>>, sheet |-> t]

\* sep.join(parts)
RECURSIVE Join(_, _)
Join(parts, sep) ==
    IF parts = <<>> THEN <<>>
    ELSE IF Len(parts) = 1 THEN parts[1]
    ELSE parts[1] \o <<sep>> \o Join(Tail(parts), sep)

\* a field with its quote characters doubled
RECURSIVE DoubleQuotes(_)
DoubleQuotes(s) ==
    IF s = <<>> THEN <<>>
    ELSE (IF Head(s) = "QUOTE" THEN <<"QUOTE", "QUOTE">> ELSE <<Head(s)>>)
         \o DoubleQuotes(Tail(s))

\* the text to_csv writes for a value: a missing value is written empty
csv_text(c) == IF c.t = "nan" THEN <<>> ELSE Str(c)

\* csv.QUOTE_MINIMAL: a field holding the delimiter, the quote character or a
\* line break is quoted
csv_field(s) ==
    IF \E i \in 1..Len(s) : s[i] \in {",", "QUOTE", "NL", "CR"}
    THEN <<"QUOTE">> \o DoubleQuotes(s) \o <<"QUOTE">>
    ELSE s

\* one record; a record of one empty field is written as a pair of quotes
csv_line(cells) ==
    (IF Len(cells) = 1 /\ csv_text(cells[1]) = <<>>
     THEN <<"QUOTE", "QUOTE">>
     ELSE Join([i \in 1..Len(cells) |-> csv_field(csv_text(cells[i]))], ","))
    \o <<"NL">>

RECURSIVE csv_lines(_)
csv_lines(rows) ==
    IF rows = <<>> THEN <<>> ELSE csv_line(Head(rows)) \o csv_lines(Tail(rows))

\* df.to_csv(output, index=False): the header line, then one line per row
to_csv(t) == csv_line(t.columns) \o csv_lines(t.rows)

\* variant: open(path, mode='ab'), an existing file keeps its content
open_ab(fs, path) == IF fs[path].kind = "bytes" THEN fs[path].bytes ELSE <<>>

\* open(path, mode='wb'): the content is discarded
open_wb(fs, path) == <<>>

\* open(path, mode='a'): the content is kept
open_a(fs, path) == IF fs[path].kind = "bytes" THEN fs[path].bytes ELSE <<>>

\* a write to a file opened with one of the modes above
write(fs, path, opened, bs) == [fs EXCEPT ![path] = BytesFile(opened \o bs)]

\* _output_csv
output_csv(fs, t, path) ==
    LET fs1 == write(fs, path, open_wb(fs, path), <<"BOM">>)
    IN write(fs1, path, open_a(fs1, path), to_csv(t))

\* _output_excel
output_excel(fs, t, path) == [fs EXCEPT ![path] = XlsxFile(t)]

\* variant: both types mapped to the csv extension
extension_csv_for_both == [csv |-> "csv", excel |-> "csv"]

\* the extension dict of _output
extension == [csv |-> "csv", excel |-> "xlsx"]

\* 'output.' + extension
OutputPath(ext) ==
    CASE ext = "csv" -> "output.csv"
      [] ext = "xlsx" -> "output.xlsx"

\* _output(df, file_type), called by main or directly
Output ==
    /\ pc \in {"main_output", "call_output"}
    /\ IF output_type \in {"csv", "excel"}
       THEN /\ files' = IF output_type = "csv"
                        THEN output_csv(files, df, OutputPath(extension[output_type]))
                        ELSE output_excel(files, df, OutputPath(extension[output_type]))
            /\ log' = log
       ELSE /\ log' = Append(log, LogRec("error", "unsupported export type"))
            /\ files' = files
    /\ pc' = "done"
    /\ UNCHANGED <<pdf, output_type, file_content, platform, line_count, parser,
                   area, df, exc, configs, data, total_amount, doc>>

-----------------------------------------------------------------------------
(* Specification of _output over tables, file types and earlier files *)

CsvColumns == <<Txt(<<"h">>), Txt(<<"k", ",", "m">>)>>

CsvCells1 == {NaN, Txt(<<"a", "QUOTE">>)}

CsvCells2 == {IntCell(12), Txt(<<"b", "NL", "c">>), Txt(<<"d">>)}

CsvRows == {<<c1, c2>> : c1 \in CsvCells1, c2 \in CsvCells2}

OutputTypes == {"csv", "excel", "CSV", "xlsx", "docx", ""}

EarlierCsv == {Absent, BytesFile(<<>>), BytesFile(<<"BOM", "o", "l", "d", "NL">>)}

EarlierXlsx == {Absent, XlsxFile(SampleTable)}

InitOutput ==
    /\ pc = "call_output"
    /\ \E f1 \in EarlierCsv, f2 \in EarlierXlsx, o \in OutputTypes :
          Idle([wellformed |-> TRUE, text |-> <<>>, tables |-> <<>>],
               [NoFiles EXCEPT !["output.csv"] = f1, !["output.xlsx"] = f2], o)
    /\ line_count = 0
    /\ parser = "none"
    /\ NoReport
    /\ \E rows \in SeqsUpTo(CsvRows, MaxCsvRows) :
          df = [columns |-> CsvColumns, rows |-> rows]

NextOutput == Output

SpecOutput == InitOutput /\ [][NextOutput]_vars

AllFiles == {"output.csv", "output.xlsx", "report.docx"}

\* C4: _output with a file type other than exactly 'csv' or 'excel' logs an
\* error and creates or modifies no file; with 'csv' it writes the one file
\* output.csv, with 'excel' the one file output.xlsx, never both in one call.
C4_OutputByType ==
    [][(pc = "call_output" /\ pc' = "done") =>
          /\ output_type \notin {"csv", "excel"} =>
                /\ files' = files
                /\ log' = Append(log, LogRec("error", "unsupported export type"))
          /\ output_type = "csv" =>
                /\ files'["output.csv"].kind = "bytes"
                /\ \A f \in AllFiles \ {"output.csv"} : files'[f] = files[f]
                /\ log' = log
          /\ output_type = "excel" =>
                /\ files'["output.xlsx"] = XlsxFile(df)
                /\ \A f \in AllFiles \ {"output.xlsx"} : files'[f] = files[f]
                /\ log' = log]_vars

\* an unsupported type: the error is logged and no file exists afterwards
C4_Witness ==
    /\ pc = "done"
    /\ output_type = "xlsx"
    /\ log = <<LogRec("error", "unsupported export type")>>
    /\ \A f \in AllFiles : files[f] = Absent

Count(x, s) == Cardinality({i \in 1..Len(s) : s[i] = x})

\* the line breaks that to_csv writes inside the cells of a record
BreaksIn(cells) ==
    LET texts == [i \in 1..Len(cells) |-> csv_text(cells[i])]
        RECURSIVE Sum(_)
        Sum(k) == IF k = 0 THEN 0 ELSE Sum(k - 1) + Count("NL", texts[k])
    IN Sum(Len(cells))

RECURSIVE BreaksInRows(_)
BreaksInRows(rows) ==
    IF rows = <<>> THEN 0 ELSE BreaksIn(Head(rows)) + BreaksInRows(Tail(rows))

\* C6: after _output_csv, whatever the file held before, its content is one
\* UTF-8 byte-order mark followed by the CSV rendering of the table (the
\* header line, then one line per row, no index column); the earlier content
\* is gone and the mark appears once, at the start only.
C6_CsvContent ==
    (pc = "done" /\ output_type = "csv") =>
        LET bs == files["output.csv"].bytes
        IN /\ files["output.csv"].kind = "bytes"
           /\ bs = <<"BOM">> \o to_csv(df)
           /\ Head(bs) = "BOM"
           /\ Count("BOM", bs) = 1
           /\ SubSeq(bs, 2, 1 + Len(csv_line(df.columns))) = csv_line(df.columns)
           /\ Count("NL", bs) =
                 1 + Len(df.rows) + BreaksIn(df.columns) + BreaksInRows(df.rows)

\* a table of two rows written; the header field holding a comma is quoted
C6_Witness ==
    /\ pc = "done"
    /\ output_type = "csv"
    /\ Len(df.rows) = 2
    /\ df.rows[1] = <<NaN, IntCell(12)>>
    /\ SubSeq(files["output.csv"].bytes, 1, 8) = <<"BOM", "h", ",", "QUOTE", "k", ",", "m", "QUOTE">>

-----------------------------------------------------------------------------
(* Specification of main *)

MainTexts ==
    {<<"T_didi", "NL", "gong", "2", "bi_xc">>,
     <<"T_gaode", "gongji", "1", "dan_xc">>,
     <<"gong", "2", "ge_xc", "NL", "SP", "NL", "T_shouqi">>,
     <<"T_meituan", "1", "2", "bi_xc">>,
     <<"T_huaxiaozhu", "T_meituan">>,
     <<"T_huaxiaozhu", "1", "bi_xc">>,
     <<"1", "bi_xc">>}

InitMain ==
    /\ pc = "main_read_meta"
    /\ \E w \in BOOLEAN, txt \in MainTexts, dfs \in SeqsUpTo(SampleTables, 1),
          o \in {"csv", "excel", "pdf"} :
          Idle([wellformed |-> w, text |-> txt, tables |-> dfs], NoFiles, o)
    /\ line_count = 0
    /\ parser = "none"
    /\ df = NoTable
    /\ NoReport

NextMain ==
    \/ ReadMeta
    \/ ParseDidi
    \/ ParseHuaxiaozhu
    \/ ParseGaode
    \/ ParseShouqi
    \/ ParseMeituan
    \/ CallUnknownWithLineCount
    \/ Output

SpecMain == InitMain /\ [][NextMain]_vars

\* C5: on a malformed PDF _extract_text logs an error and raises, so
\* _read_meta returns no platform, and main invokes no parser and writes no
\* output file; a malformed PDF is never classified 'unknown' and parsed.
C5_MalformedRaises ==
    ~ pdf.wellformed =>
        /\ pc \in {"main_read_meta", "raised"}
        /\ platform = "none"
        /\ parser = "none"
        /\ area = NoArea
        /\ df = NoTable
        /\ files = NoFiles
        /\ pc = "raised" =>
              /\ exc = "Exception"
              /\ log = <<LogRec("error", "not a PDF")>>

\* a malformed file whose bytes hold no title marker: the run ended in
\* _read_meta with the exception
C5_Witness ==
    /\ ~ pdf.wellformed
    /\ pdf.text = <<"1", "bi_xc">>
    /\ pc = "raised"
    /\ exc = "Exception"
    /\ platform = "none"

-----------------------------------------------------------------------------
(* generate_report: the table of the document *)

\* a table row is a sequence of cells [text, span]; the spans of a row add up
\* to the 7 grid columns
EmptyRow == [i \in 1..7 |-> [text |-> <<>>, span |-> 1]]

\* row.cells[g] (g 0-based): the position in the row of the cell that covers
\* grid column g
RECURSIVE CellAt(_, _, _)
CellAt(row, g, k) ==
    IF g < row[k].span THEN k ELSE CellAt(row, g - row[k].span, k + 1)

\* row.cells[g].text = txt
set_text(row, g, txt) == [row EXCEPT ![CellAt(row, g, 1)].text = txt]

RECURSIVE ConcatTexts(_)
ConcatTexts(cells) ==
    IF cells = <<>> THEN <<>> ELSE Head(cells).text \o ConcatTexts(Tail(cells))

RECURSIVE SumSpans(_)
SumSpans(cells) ==
    IF cells = <<>> THEN 0 ELSE Head(cells).span + SumSpans(Tail(cells))

\* row.cells[g1].merge(row.cells[g2])
merge(row, g1, g2) ==
    LET a == CellAt(row, g1, 1)
        b == CellAt(row, g2, 1)
        part == SubSeq(row, a, b)
    IN SubSeq(row, 1, a - 1)
       \o <<[text |-> ConcatTexts(part), span |-> SumSpans(part)]>>
       \o SubSeq(row, b + 1, Len(row))

headers == <<"H_seq", "H_date", "H_passenger", "H_origin", "H_dest", "H_purpose", "H_amount">>

header_row == [i \in 1..7 |-> [text |-> <<headers[i]>>, span |-> 1]]

\* the loop over row_data: cell i takes str(item i)
RECURSIVE fill_row(_, _, _)
fill_row(row, items, i) ==
    IF i > Len(items) THEN row
    ELSE fill_row(set_text(row, i - 1, Str(items[i])), items, i + 1)

\* variant: the two merges left out
total_row_unmerged(total) ==
    set_text(set_text(EmptyRow, 0, <<"L_total">>), 4, IntToStr(total))

\* the total row: cells 0..3 merged with the label, cells 4..6 merged with
\* str(total_amount)
total_row(total) ==
    LET r1 == set_text(merge(EmptyRow, 0, 3), 0, <<"L_total">>)
    IN set_text(merge(r1, 4, 6), 4, IntToStr(total))

RECURSIVE data_rows(_)
data_rows(d) ==
    IF d = <<>> THEN <<>>
    ELSE <<fill_row(EmptyRow, Head(d), 1)>> \o data_rows(Tail(d))

DocxFile == [kind |-> "docx", bytes |-> <<>>, sheet |-> NoTable]

\* generate_report(fill_person, fill_date, data, total_amount); a row of more
\* than 7 items indexes past the 7 cells of its table row
GenerateReport ==
    /\ pc \in {"call_report", "entry_report"}
    /\ IF \E k \in 1..Len(data) : Len(data[k]) > 7
       THEN /\ exc' = "IndexError"
            /\ pc' = "raised"
            /\ UNCHANGED <<doc, files>>
       ELSE /\ doc' = <<header_row>> \o data_rows(data) \o <<total_row(total_amount)>>
            /\ files' = [files EXCEPT !["report.docx"] = DocxFile]
            /\ pc' = "report_done"
            /\ exc' = exc
    /\ UNCHANGED <<pdf, output_type, file_content, platform, line_count, parser,
                   area, df, log, configs, data, total_amount>>

-----------------------------------------------------------------------------
(* Specification of generate_report over short lists of rows *)

FullRows ==
    {<<IntCell(1), Txt(<<"d">>), Txt(<<"p">>), Txt(<<"o">>), Txt(<<"q">>),
       Txt(<<>>), IntCell(35), Txt(<<"x">>)>>,
     <<Txt(<<"SP", "s">>), IntCell(20), NaN, Txt(<<"o">>), IntCell(0),
       Txt(<<"u">>), Txt(<<"7">>), IntCell(9)>>}

\* rows of 0 to 8 items
ReportRows == {SubSeq(r, 1, n) : r \in FullRows, n \in 0..8}

InitReport ==
    /\ pc = "call_report"
    /\ Idle([wellformed |-> TRUE, text |-> <<>>, tables |-> <<>>], NoFiles, "csv")
    /\ line_count = 0
    /\ parser = "none"
    /\ df = NoTable
    /\ configs = {}
    /\ data \in SeqsUpTo(ReportRows, MaxReportRows)
    /\ total_amount \in {0, 35, 120}

NextReport == GenerateReport

SpecReport == InitReport /\ [][NextReport]_vars

\* C7: for rows of at most 7 items generate_report builds a table of 7
\* columns and len(data) + 2 rows: the header row (sequence, date, passenger,
\* origin, destination, purpose, amount), one row per data row in input order
\* whose cell i holds str(item i), and last the total row, whose first four
\* cells are merged and hold the total label and whose last three cells are
\* merged and hold str(total_amount); the total row is there for empty data
\* too.
C7_ReportTable ==
    ((pc = "report_done" \/ pc = "raised") /\ \A k \in 1..Len(data) : Len(data[k]) <= 7) =>
        /\ pc = "report_done"
        /\ Len(doc) = Len(data) + 2
        /\ \A r \in 1..Len(doc) : SumSpans(doc[r]) = 7
        /\ Len(doc[1]) = 7
        /\ \A i \in 1..7 :
              doc[1][i] = [text |-> <<<<"H_seq", "H_date", "H_passenger", "H_origin",
                                       "H_dest", "H_purpose", "H_amount">>[i]>>,
                           span |-> 1]
        /\ \A k \in 1..Len(data) :
              /\ Len(doc[k + 1]) = 7
              /\ \A i \in 1..Len(data[k]) :
                    doc[k + 1][i] = [text |-> Str(data[k][i]), span |-> 1]
        /\ doc[Len(doc)] = <<[text |-> <<"L_total">>, span |-> 4],
                             [text |-> IntToStr(total_amount), span |-> 3]>>

\* empty data: the header row and the total row '120'
C7_Witness ==
    /\ pc = "report_done"
    /\ data = <<>>
    /\ Len(doc) = 2
    /\ doc[2][2].text = <<"1", "2", "0">>
    /\ doc[2][2].span = 3

-----------------------------------------------------------------------------
(* The script entry point *)

\* s.split(sep)[0]
RECURSIVE SplitFirst(_, _)
SplitFirst(s, sep) ==
    IF s = <<>> \/ Head(s) = sep THEN <<>>
    ELSE <<Head(s)>> \o SplitFirst(Tail(s), sep)

\* s.split(sep)[-1]
RECURSIVE SplitLast(_, _)
SplitLast(s, sep) ==
    IF s = <<>> \/ s[Len(s)] = sep THEN <<>>
    ELSE SplitLast(SubSeq(s, 1, Len(s) - 1), sep) \o <<s[Len(s)]>>

\* s.replace(ch, "")
RECURSIVE Remove(_, _)
Remove(s, ch) ==
    IF s = <<>> THEN <<>>
    ELSE (IF Head(s) = ch THEN <<>> ELSE <<Head(s)>>) \o Remove(Tail(s), ch)

\* s.find(sub) != -1
Find(s, sub) == \E i \in 0..(Len(s) - Len(sub)) : SubSeq(s, i + 1, i + Len(sub)) = sub

year == <<"2", "0", "2", "4">>

passenger == <<"passenger">>

\* the place of a trip row: the part after the last '|', without '-'
place(c) == StrCell(Remove(SplitLast(Str(c), "|"), "-"))

\* one entry of extracted_elements (row is 1-based here: row[k] of the source
\* is row[k + 1])
element(row) ==
    <<row[1],
      StrCell(year \o <<"-">> \o SplitFirst(Str(row[3]), "SP")),
      StrCell(passenger),
      place(row[5]),
      place(row[6]),
      StrCell(<<>>),
      row[8]>>

\* sum([row[7] for row in data_list])
RECURSIVE sum_amounts(_)
sum_amounts(rows) ==
    IF rows = <<>> THEN 0 ELSE Head(rows)[8].n + sum_amounts(Tail(rows))

\* the loop over extracted_elements: an element is listed with the purpose of
\* the first matching config the iteration over the set meets (any of the
\* matching ones), and is skipped when none matches
RECURSIVE tagged(_, _)
tagged(rows, cfgs) ==
    IF rows = <<>> THEN {<<>>}
    ELSE LET e == element(Head(rows))
             hits == {cfg \in cfgs : Find(e[4].s, cfg[1]) /\ Find(e[5].s, cfg[2])}
             rest == tagged(Tail(rows), cfgs)
         IN IF hits = {} THEN rest
            ELSE {<<[e EXCEPT ![6] = StrCell(cfg[3])]>> \o r : cfg \in hits, r \in rest}

\* lines 324-338 of the script: the elements, the total and the listed rows
EntryBuild ==
    /\ pc = "entry_build"
    /\ total_amount' = sum_amounts(df.rows)
    /\ data' \in tagged(df.rows, configs)
    /\ pc' = "entry_report"
    /\ UNCHANGED <<pdf, output_type, file_content, platform, line_count, parser,
                   area, df, log, files, exc, configs, doc>>

-----------------------------------------------------------------------------
(* Specification of the script over short trip tables and sets of configs *)

TripColumns ==
    <<Txt(<<"n", "o">>), Txt(<<"c", "a", "r">>), Txt(<<"t", "i", "m", "e">>),
      Txt(<<"c", "i", "t", "y">>), Txt(<<"f", "r", "o", "m">>), Txt(<<"t", "o">>),
      Txt(<<"k", "m">>), Txt(<<"f", "e", "e", "CR">>)>>

TripOrigins == {<<"c", "|", "O", "-", "1">>, <<"Y">>, <<"Z">>}

TripDests == {<<"D">>, <<"c", "|", "X", "X">>}

TripAmounts == {3, 5}

TripRows ==
    {<<IntCell(1), Txt(<<"k">>), Txt(<<"0", "1", "-", "0", "8", "SP", "1", "2">>),
       Txt(<<"c">>), Txt(o), Txt(d), IntCell(4), IntCell(a)>> :
        o \in TripOrigins, d \in TripDests, a \in TripAmounts}

\* the configs of the script: (origin, destination, purpose)
ConfigPool ==
    {<< <<"O">>, <<"D">>, <<"m", "e", "e", "t">> >>,
     << <<"Y">>, <<"X">>, <<"b", "a", "c", "k">> >>,
     << <<"1">>, <<>>, <<"v", "i", "s", "i", "t">> >>}

InitEntry ==
    /\ pc = "entry_read_meta"
    /\ \E rows \in SeqsUpTo(TripRows, MaxTrips) :
          Idle([wellformed |-> TRUE, text |-> <<"T_didi", "gong", "2", "bi_xc">>,
                tables |-> <<[columns |-> TripColumns, rows |-> rows]>>],
               NoFiles, "csv")
    /\ line_count = 0
    /\ parser = "none"
    /\ df = NoTable
    /\ configs \in (SUBSET ConfigPool) \ {{}}
    /\ data = <<>>
    /\ total_amount = 0

NextEntry == ReadMeta \/ ParseDidi \/ EntryBuild \/ GenerateReport

SpecEntry == InitEntry /\ [][NextEntry]_vars

\* the rows listed in the report table: all but the header and the total row
C10_Listed == SubSeq(doc, 2, Len(doc) - 1)

RECURSIVE C10_SumAmounts(_)
C10_SumAmounts(listed) ==
    IF listed = <<>> THEN 0
    ELSE ToInt(Head(listed)[7].text) + C10_SumAmounts(Tail(listed))

\* the listed rows are extracted rows, each once, in extraction order: a
\* strictly increasing map from the listed rows into the extracted rows, under
\* which a listed row shows the sequence number, place of origin, destination
\* and amount of its extracted row and the purpose of a config whose origin
\* and destination occur in them
C10_ListedFromExtracted ==
    LET listed == C10_Listed
        ext == df.rows
    IN \E f \in [1..Len(listed) -> 1..Len(ext)] :
          /\ \A i, j \in 1..Len(listed) : i < j => f[i] < f[j]
          /\ \A i \in 1..Len(listed) :
                /\ listed[i][1].text = Str(ext[f[i]][1])
                /\ listed[i][4].text = Remove(SplitLast(Str(ext[f[i]][5]), "|"), "-")
                /\ listed[i][5].text = Remove(SplitLast(Str(ext[f[i]][6]), "|"), "-")
                /\ listed[i][7].text = Str(ext[f[i]][8])
                /\ \E cfg \in configs :
                      /\ listed[i][6].text = cfg[3]
                      /\ Find(listed[i][4].text, cfg[1])
                      /\ Find(listed[i][5].text, cfg[2])

\* C10: in the script the total of the report's total row equals the sum of
\* the amount column over exactly the trip rows listed in the report table;
\* each listed row is an extracted row, appears once, in extraction order, and
\* carries the purpose of a config whose origin and destination both occur in
\* the row's origin and destination.
C10_TotalOfListed ==
    pc = "report_done" =>
        /\ doc[Len(doc)][2].text = IntToStr(C10_SumAmounts(C10_Listed))
        /\ C10_ListedFromExtracted

\* the part of C10 about the listed rows alone
C10_ListedOnly == pc = "report_done" => C10_ListedFromExtracted

====
